---- MODULE Spec2Model ----
(***************************************************************************)
(* Model of src/app.py, the Flask application of the IgnitoSolutions site: *)
(* the SQLite record store (Service, User, Order, Contact), the seeding    *)
(* run at import, the session flag "admin_logged_in", the admin_required   *)
(* decorator and every view function.                                      *)
(*                                                                         *)
(* One action per view function and request method.  A view function is a  *)
(* pure operator from (store, session, request inputs) to an outcome       *)
(* record [db, session, resp, executed]; the action installs the outcome.  *)
(***************************************************************************)
EXTENDS Integers, Sequences, FiniteSets, TLC

VARIABLES
    phase,      \* "down": process not running; "up": module imported, serving
    db,         \* database.db: [users, services, orders, contacts], sets of rows
    session,    \* per browser: TRUE iff the cookie holds admin_logged_in
    clock,      \* datetime.utcnow(), advanced by every insert that stamps a row
    endpoint,   \* view function the last request was routed to
    method,     \* HTTP method of the last request
    sid,        \* browser whose session the last request's view was given;
                \* None for the public views, which never read the session
    resp,       \* response to the last request
    executed,   \* TRUE iff the body of the routed view function ran
    loggedIn    \* history: per browser, the last login/logout event was a
                \* successful login

vars == <<phase, db, session, clock, endpoint, method, sid, resp, executed, loggedIn>>

---------------------------------------------------------------------------
(* Bounds of the model *)

\* rows an Order / Contact table may hold
MaxOrders == 1
MaxContacts == 1
\* a Service insert is allowed while the table holds fewer rows than this
MaxServices == 8

\* browsers
Sessions == {"b1", "b2"}
\* salts generate_password_hash may draw
Salts == {"salt1"}

---------------------------------------------------------------------------
(* Python values *)

\* Python's None, as returned by request.form.get / dict.get for a missing key
None == "<None>"

\* values a text field of a form or of the JSON payload may carry
FormValues == {None, "", "x"}

\* bool(v) for v a str or None
Truthy(v) == v # None /\ v # ""

\* all([...]) over str-or-None values
all(vs) == \A i \in 1..Len(vs) : Truthy(vs[i])

\* JSON values of the /order payload, and Absent for a key the payload lacks
Absent == [t |-> "absent", n |-> 0, s |-> <<>>]
JNull == [t |-> "null", n |-> 0, s |-> <<>>]
JNum(n) == [t |-> "num", n |-> n, s |-> <<>>]
JStr(chars) == [t |-> "str", n |-> 0, s |-> chars]
JList(elems) == [t |-> "list", n |-> 0, s |-> elems]

\* bool(v) for a JSON value
JTruthy(v) ==
    CASE v.t = "null" -> FALSE
      [] v.t = "num" -> v.n # 0
      [] v.t = "str" -> v.s # <<>>
      [] v.t = "list" -> v.s # <<>>

\* dict.get(key, default)
get(v, default) == IF v = Absent THEN default ELSE v

Digits == <<"0", "1", "2", "3", "4", "5", "6", "7", "8", "9">>
IsDigit(c) == \E d \in 1..Len(Digits) : Digits[d] = c
DigitVal(c) == (CHOOSE d \in 1..Len(Digits) : Digits[d] = c) - 1

RECURSIVE DigitsVal(_)
DigitsVal(cs) ==
    IF cs = <<>> THEN 0
    ELSE 10 * DigitsVal(SubSeq(cs, 1, Len(cs) - 1)) + DigitVal(cs[Len(cs)])

AllDigits(cs) == cs # <<>> /\ \A i \in 1..Len(cs) : IsDigit(cs[i])

\* float(v): [exc |-> None, value |-> number] or the exception raised.
\* Numbers are integers here; a str is an optional sign and decimal digits.
float(v) ==
    CASE v.t = "num" -> [exc |-> None, value |-> v.n]
      [] v.t = "str" ->
            IF AllDigits(v.s) THEN [exc |-> None, value |-> DigitsVal(v.s)]
            ELSE IF v.s # <<>> /\ v.s[1] \in {"-", "+"} /\ AllDigits(Tail(v.s))
            THEN [exc |-> None,
                  value |-> IF v.s[1] = "-" THEN 0 - DigitsVal(Tail(v.s))
                            ELSE DigitsVal(Tail(v.s))]
            ELSE [exc |-> "ValueError", value |-> 0]
      [] OTHER -> [exc |-> "TypeError", value |-> 0]

RECURSIVE NatChars(_)
NatChars(n) ==
    IF n < 10 THEN <<Digits[n + 1]>>
    ELSE NatChars(n \div 10) \o <<Digits[(n % 10) + 1]>>

\* str(n) for an int n, as characters
NumChars(n) == IF n < 0 THEN <<"-">> \o NatChars(0 - n) ELSE NatChars(n)

RECURSIVE JoinQuoted(_)
JoinQuoted(elems) ==
    IF elems = <<>> THEN <<>>
    ELSE <<"\"", elems[1], "\"">>
         \o (IF Len(elems) > 1 THEN <<",", " ">> ELSE <<>>)
         \o JoinQuoted(Tail(elems))

\* json.dumps(v), as the sequence of its characters (list elements and strings
\* are single characters)
json_dumps(v) ==
    CASE v.t = "list" -> <<"[">> \o JoinQuoted(v.s) \o <<"]">>
      [] v.t = "str" -> <<"\"">> \o v.s \o <<"\"">>
      [] v.t = "num" -> NumChars(v.n)
      [] v.t = "null" -> <<"n", "u", "l", "l">>

---------------------------------------------------------------------------
(* Record store *)

EmptyStore == [users |-> {}, services |-> {}, orders |-> {}, contacts |-> {}]

\* INTEGER PRIMARY KEY of SQLite: one more than the largest id in the table
NextId(rows) ==
    IF rows = {} THEN 1
    ELSE (CHOOSE m \in {r.id : r \in rows} : \A r \in rows : r.id <= m) + 1

\* Model.query.get(id): the set holding the row, empty when there is none
get_row(rows, id) == {r \in rows : r.id = id}

DEFAULT_ADMIN_USERNAME == "admin"
DEFAULT_ADMIN_PASSWORD == "admin123"

\* werkzeug's salted digest, an injective function of salt and password
hash_internal(salt, password) == <<salt, password>>

generate_password_hash(password, salt) ==
    [salt |-> salt, digest |-> hash_internal(salt, password)]

check_password_hash(pwhash, password) ==
    hash_internal(pwhash.salt, password) = pwhash.digest

verify_password(user, password) == check_password_hash(user.password_hash, password)

services_seed == <<
    [name |-> "Market Research",
     description |-> "Gain deep insights into your market and customers to make informed decisions.",
     price_display |-> "Starting from $2,999",
     image_file |-> "market_research.png"],
    [name |-> "Marketing",
     description |-> "Reach your audience with effective marketing strategies and campaigns.",
     price_display |-> "Design Your Bundle",
     image_file |-> "lead_generation.png"],
    [name |-> "Apps and Software Development",
     description |-> "Build high-quality applications and software tailored to your needs.",
     price_display |-> "Starting from $9,999",
     image_file |-> "apps_development.png"],
    [name |-> "Business Strategy",
     description |-> "Develop a clear business strategy that aligns with your goals and vision.",
     price_display |-> "$2,999",
     image_file |-> "business_strategy.png"],
    [name |-> "Operational Reporting",
     description |-> "Monitor and improve your operations with comprehensive reporting tools.",
     price_display |-> "Check Monthly / Yearly Bundles",
     image_file |-> "operational_reporting.png"],
    [name |-> "Offshore Teams",
     description |-> "Build and manage offshore call centers and social media management teams to enhance efficiency and reduce costs.",
     price_display |-> "Tailored pricing",
     image_file |-> "offshore_teams.png"],
    [name |-> "Lead Generation",
     description |-> "Generate high-quality leads through targeted strategies and tools to grow your customer base.",
     price_display |-> "Tailored pricing",
     image_file |-> "lead_generation.png"] >>

Service(id, name, description, price_display, image_file) ==
    [id |-> id, name |-> name, description |-> description,
     price_display |-> price_display, image_file |-> image_file]

User(id, username, password_hash) ==
    [id |-> id, username |-> username, password_hash |-> password_hash]

Order(id, items_json, total, name, email, message, created_at) ==
    [id |-> id, items_json |-> items_json, total |-> total, name |-> name,
     email |-> email, message |-> message, created_at |-> created_at]

Contact(id, name, email, message, created_at) ==
    [id |-> id, name |-> name, email |-> email, message |-> message,
     created_at |-> created_at]

\* "if not User.query.first()": the admin is created when the table is empty
seed_admin(users, salt) ==
    IF users = {}
    THEN {User(NextId(users), DEFAULT_ADMIN_USERNAME,
               generate_password_hash(DEFAULT_ADMIN_PASSWORD, salt))}
    ELSE users

\* seed_services without the emptiness test
seed_services_unconditional(services) ==
    services \cup
    {Service(NextId(services) + i - 1, services_seed[i].name,
             services_seed[i].description, services_seed[i].price_display,
             services_seed[i].image_file) : i \in 1..Len(services_seed)}

\* "if Service.query.count() == 0": the catalog is inserted in list order
seed_services(services) ==
    IF Cardinality(services) = 0
    THEN {Service(i, services_seed[i].name, services_seed[i].description,
                  services_seed[i].price_display, services_seed[i].image_file)
            : i \in 1..Len(services_seed)}
    ELSE services

seed_data(store, salt) ==
    [store EXCEPT !.users = seed_admin(store.users, salt),
                  !.services = seed_services(store.services)]

---------------------------------------------------------------------------
(* Requests and responses *)

\* request.path: the matched rule and, for <int:service_id> rules, the id
Path(rule, service_id) == [rule |-> rule, service_id |-> service_id]
NoPath == Path("", 0)

\* url_for(endpoint)
url_for(name) ==
    CASE name = "login" -> "/admin/login"
      [] name = "dashboard" -> "/admin/dashboard"
      [] name = "checkout_page" -> "/checkout"

Response(status, kind, target, detail, next) ==
    [status |-> status, kind |-> kind, target |-> target, detail |-> detail,
     next |-> next]

NoResponse == Response(0, "", "", None, NoPath)

\* render_template(template, error=error)
render_template(template, error) == Response(200, "render", template, error, NoPath)

\* jsonify({"status": status, "message": message}), code
jsonify(status, message, code) == Response(code, "json", status, message, NoPath)

\* redirect(url_for(endpoint, next=next))
redirect(location, next) == Response(302, "redirect", location, None, next)

\* get_or_404 aborting the request
NotFound == Response(404, "abort", "NotFound", None, NoPath)

\* an exception no handler catches: Flask answers 500
InternalServerError(exc) == Response(500, "exception", exc, None, NoPath)

\* what one request does: the store and session it leaves, its response, and
\* whether the body of the view function ran
Outcome(store, sess, r, ran) ==
    [db |-> store, session |-> sess, resp |-> r, executed |-> ran]

---------------------------------------------------------------------------
(* Auth *)

\* admin_required with the flag looked up in any session, not the caller's
admin_required_any_session(store, sess, s, path, f) ==
    IF ~(\E t \in DOMAIN sess : sess[t])
    THEN Outcome(store, sess, redirect(url_for("login"), path), FALSE)
    ELSE f

\* decorated(): without the flag, redirect to login and do not call f
admin_required(store, sess, s, path, f) ==
    IF ~sess[s]
    THEN Outcome(store, sess, redirect(url_for("login"), path), FALSE)
    ELSE f

\* login without the password check
login_username_only(store, sess, s, meth, username, password) ==
    IF meth = "POST"
    THEN IF \E u \in store.users : u.username = username
         THEN Outcome(store, [sess EXCEPT ![s] = TRUE],
                      redirect(url_for("dashboard"), NoPath), TRUE)
         ELSE Outcome(store, sess,
                      render_template("login.html", "Invalid credentials"), TRUE)
    ELSE Outcome(store, sess, render_template("login.html", None), TRUE)

\* login that drops the flag when the credentials are refused
login_failure_clears_flag(store, sess, s, meth, username, password) ==
    IF meth = "POST"
    THEN LET user == {u \in store.users : u.username = username}
         IN IF user # {} /\ password = None
            THEN Outcome(store, sess, InternalServerError("AttributeError"), TRUE)
            ELSE IF \E u \in user : verify_password(u, password)
            THEN Outcome(store, [sess EXCEPT ![s] = TRUE],
                         redirect(url_for("dashboard"), NoPath), TRUE)
            ELSE Outcome(store, [sess EXCEPT ![s] = FALSE],
                         render_template("login.html", "Invalid credentials"), TRUE)
    ELSE Outcome(store, sess, render_template("login.html", None), TRUE)

\* POST: the flag is set when a user of that name exists and the password
\* verifies.  check_password_hash raises on a None password.
login(store, sess, s, meth, username, password) ==
    IF meth = "POST"
    THEN LET user == {u \in store.users : u.username = username}
         IN IF user # {} /\ password = None
            THEN Outcome(store, sess, InternalServerError("AttributeError"), TRUE)
            ELSE IF \E u \in user : verify_password(u, password)
            THEN Outcome(store, [sess EXCEPT ![s] = TRUE],
                         redirect(url_for("dashboard"), NoPath), TRUE)
            ELSE Outcome(store, sess,
                         render_template("login.html", "Invalid credentials"), TRUE)
    ELSE Outcome(store, sess, render_template("login.html", None), TRUE)

\* session.pop("admin_logged_in", None); the route carries no admin_required
logout(store, sess, s) ==
    Outcome(store, [sess EXCEPT ![s] = FALSE], redirect(url_for("login"), NoPath), TRUE)

---------------------------------------------------------------------------
(* Public routes *)

PublicTemplates ==
    [index |-> "index.html", services_page |-> "services.html",
     about_page |-> "about.html", blog_page |-> "blog.html",
     checkout_page |-> "checkout.html", privacy_policy |-> "privacy-policy.html",
     terms_and_conditions |-> "terms-and-conditions.html"]

\* the GET-only public views: each renders its template
public_page(store, sess, name) ==
    Outcome(store, sess, render_template(PublicTemplates[name], None), TRUE)

\* contact_page validating with any() in place of all()
contact_page_any_field(store, sess, meth, name, email, message, now) ==
    IF meth = "POST"
    THEN IF ~(Truthy(name) \/ Truthy(email) \/ Truthy(message))
         THEN Outcome(store, sess, jsonify("error", "All fields are required.", 400), TRUE)
         ELSE Outcome([store EXCEPT !.contacts =
                          @ \cup {Contact(NextId(@), name, email, message, now)}],
                      sess, jsonify("success", None, 200), TRUE)
    ELSE Outcome(store, sess, render_template("contact.html", None), TRUE)

contact_page(store, sess, meth, name, email, message, now) ==
    IF meth = "POST"
    THEN IF ~all(<<name, email, message>>)
         THEN Outcome(store, sess, jsonify("error", "All fields are required.", 400), TRUE)
         ELSE Outcome([store EXCEPT !.contacts =
                          @ \cup {Contact(NextId(@), name, email, message, now)}],
                      sess, jsonify("success", None, 200), TRUE)
    ELSE Outcome(store, sess, render_template("contact.html", None), TRUE)

\* data: the JSON object of the request, [items, total, name, email, message]
order(store, sess, data, now) ==
    LET items == get(data.items, JList(<<>>))
        total == get(data.total, JNum(0))
        name == data.name
        email == data.email
        message == IF data.message = None THEN "" ELSE data.message
    IN IF ~JTruthy(items) \/ ~Truthy(name) \/ ~Truthy(email)
       THEN Outcome(store, sess,
                    jsonify("error", "Missing required information.", 400), TRUE)
       ELSE IF float(total).exc # None
       THEN Outcome(store, sess, InternalServerError(float(total).exc), TRUE)
       ELSE Outcome([store EXCEPT !.orders =
                        @ \cup {Order(NextId(@), json_dumps(items), float(total).value,
                                      name, email, message, now)}],
                    sess, jsonify("success", None, 200), TRUE)

---------------------------------------------------------------------------
(* Admin routes *)

dashboard(store, sess) ==
    Outcome(store, sess, render_template("dashboard.html", None), TRUE)

\* db.session.commit() of a changed Service row: name, description and
\* price_display are nullable=False, a None is refused with IntegrityError
NotNullOk(service) ==
    service.name # None /\ service.description # None /\ service.price_display # None

add_service(store, sess, meth, name, description, price_display, image_file_in) ==
    IF meth = "POST"
    THEN LET image_file == IF Truthy(image_file_in) THEN image_file_in
                           ELSE "placeholder.png"
         IN IF ~all(<<name, description, price_display>>)
            THEN Outcome(store, sess,
                         render_template("service_form.html", "All fields are required"),
                         TRUE)
            ELSE Outcome([store EXCEPT !.services =
                             @ \cup {Service(NextId(@), name, description,
                                             price_display, image_file)}],
                         sess, redirect(url_for("dashboard"), NoPath), TRUE)
    ELSE Outcome(store, sess, render_template("service_form.html", None), TRUE)

\* edit_service assigning image_file without the "if image_file" test
edit_service_overwrites_image(store, sess, meth, service_id, name, description, price_display, image_file) ==
    LET found == get_row(store.services, service_id)
    IN IF found = {} THEN Outcome(store, sess, NotFound, TRUE)
       ELSE IF meth = "POST"
       THEN LET service == CHOOSE r \in found : TRUE
                edited == Service(service.id, name, description, price_display,
                                  IF image_file = None THEN "" ELSE image_file)
            IN IF ~NotNullOk(edited)
               THEN Outcome(store, sess, InternalServerError("IntegrityError"), TRUE)
               ELSE Outcome([store EXCEPT !.services = (@ \ found) \cup {edited}],
                            sess, redirect(url_for("dashboard"), NoPath), TRUE)
       ELSE Outcome(store, sess, render_template("service_form.html", None), TRUE)

edit_service(store, sess, meth, service_id, name, description, price_display, image_file) ==
    LET found == get_row(store.services, service_id)
    IN IF found = {} THEN Outcome(store, sess, NotFound, TRUE)
       ELSE IF meth = "POST"
       THEN LET service == CHOOSE r \in found : TRUE
                edited == Service(service.id, name, description, price_display,
                                  IF Truthy(image_file) THEN image_file
                                  ELSE service.image_file)
            IN IF ~NotNullOk(edited)
               THEN Outcome(store, sess, InternalServerError("IntegrityError"), TRUE)
               ELSE Outcome([store EXCEPT !.services = (@ \ found) \cup {edited}],
                            sess, redirect(url_for("dashboard"), NoPath), TRUE)
       ELSE Outcome(store, sess, render_template("service_form.html", None), TRUE)

\* delete_service with query.get in place of get_or_404: a missing id is
\* skipped and the redirect to the dashboard follows
delete_service_silent(store, sess, service_id) ==
    Outcome([store EXCEPT !.services = @ \ get_row(@, service_id)],
            sess, redirect(url_for("dashboard"), NoPath), TRUE)

delete_service(store, sess, service_id) ==
    LET found == get_row(store.services, service_id)
    IN IF found = {} THEN Outcome(store, sess, NotFound, TRUE)
       ELSE Outcome([store EXCEPT !.services = @ \ found],
                    sess, redirect(url_for("dashboard"), NoPath), TRUE)

---------------------------------------------------------------------------
(* Inputs *)

Usernames == {None, DEFAULT_ADMIN_USERNAME, "x"}
Passwords == {None, "", DEFAULT_ADMIN_PASSWORD, "x"}

\* "items" of the /order payload: absent, [] and ["a"]
ItemsValues == {Absent, JList(<<>>), JList(<<"a">>)}
\* "total" of the /order payload: absent, -1, "7", "a" and null
TotalValues == {Absent, JNum(-1), JStr(<<"7">>), JStr(<<"a">>), JNull}

\* the /order payload: name and email both given, or one of them missing or
\* empty
OrderPayloads ==
    {d \in [items : ItemsValues, total : TotalValues, name : FormValues,
            email : FormValues, message : {None, "x"}] :
        d.name = "x" \/ d.email = "x"}

\* service_id of /admin/services/edit|delete/<int:service_id>: the first row
\* of the catalog; the rows after it are the ones a request must leave alone
ServiceIds == {1}

\* the service form as submitted: every field filled in, or one of name,
\* description and price_display missing or empty; image_file missing, empty
\* or filled in
ServiceForms ==
    {f \in [name : FormValues, description : FormValues,
            price_display : FormValues, image_file : FormValues] :
        Cardinality({k \in {"name", "description", "price_display"} : f[k] # "x"}) <= 1}

\* database.db as a stopped process can leave it: never created, or, after the
\* site took one order and one contact and the admin emptied the catalog,
\* holding the admin (hashed with the salt drawn back then), that order and
\* that contact
UsedStore ==
    [users |-> seed_admin({}, "salt0"),
     services |-> {},
     orders |-> {Order(1, json_dumps(JList(<<"a">>)), 7, "x", "x", "", 0)},
     contacts |-> {Contact(1, "x", "x", "x", 1)}]

PersistedFiles == {EmptyStore, UsedStore}

---------------------------------------------------------------------------
(* The state machine *)

Init ==
    /\ phase = "down"
    /\ db \in PersistedFiles
    /\ session = [s \in Sessions |-> FALSE]
    /\ clock = Cardinality(db.orders) + Cardinality(db.contacts)
    /\ endpoint = None
    /\ method = None
    /\ sid = None
    /\ resp = NoResponse
    /\ executed = FALSE
    /\ loggedIn = [s \in Sessions |-> FALSE]

\* "with app.app_context(): db.create_all(); seed_data()" at import
Startup ==
    /\ phase = "down"
    /\ phase' = "up"
    /\ \E salt \in Salts : db' = seed_data(db, salt)
    /\ UNCHANGED <<session, clock, endpoint, method, sid, resp, executed, loggedIn>>

\* the process stops; database.db and the browsers' cookies outlive it
Shutdown ==
    /\ phase = "up"
    /\ phase' = "down"
    /\ endpoint' = None
    /\ method' = None
    /\ sid' = None
    /\ resp' = NoResponse
    /\ executed' = FALSE
    /\ UNCHANGED <<db, session, clock, loggedIn>>

\* the request from browser s routed to view function ep ends with out
Handle(ep, meth, s, out) ==
    /\ phase = "up"
    /\ phase' = phase
    /\ endpoint' = ep
    /\ method' = meth
    /\ sid' = s
    /\ Cardinality(out.db.orders) <= MaxOrders
    /\ Cardinality(out.db.contacts) <= MaxContacts
    /\ Cardinality(out.db.services) <= MaxServices
    /\ resp' = out.resp
    /\ executed' = out.executed
    /\ session' = out.session
    /\ db' = out.db
    /\ clock' = IF out.db.orders # db.orders \/ out.db.contacts # db.contacts
                THEN clock + 1 ELSE clock
    /\ loggedIn' =
          IF ep = "login" /\ out.resp = redirect(url_for("dashboard"), NoPath)
          THEN [t \in Sessions |-> t = s \/ loggedIn[t]]
          ELSE IF ep = "logout" THEN [t \in Sessions |-> t # s /\ loggedIn[t]]
          ELSE loggedIn

PublicGet(name) ==
    Handle(name, "GET", None, public_page(db, session, name))

ContactGet ==
    Handle("contact_page", "GET", None,
           contact_page(db, session, "GET", None, None, None, clock))

ContactPost(name, email, message) ==
    Handle("contact_page", "POST", None,
           contact_page(db, session, "POST", name, email, message, clock))

OrderPost(data) ==
    Handle("order", "POST", None, order(db, session, data, clock))

LoginGet(s) ==
    Handle("login", "GET", s, login(db, session, s, "GET", None, None))

LoginPost(s, username, password) ==
    Handle("login", "POST", s, login(db, session, s, "POST", username, password))

Logout(s) ==
    Handle("logout", "GET", s, logout(db, session, s))

Dashboard(s) ==
    Handle("dashboard", "GET", s,
           admin_required(db, session, s, Path("/admin/dashboard", 0),
                          dashboard(db, session)))

AddServiceGet(s) ==
    Handle("add_service", "GET", s,
           admin_required(db, session, s, Path("/admin/services/add", 0),
                          add_service(db, session, "GET", None, None, None, None)))

AddServicePost(s, form) ==
    Handle("add_service", "POST", s,
           admin_required(db, session, s, Path("/admin/services/add", 0),
                          add_service(db, session, "POST", form.name, form.description,
                                      form.price_display, form.image_file)))

EditServiceGet(s, service_id) ==
    Handle("edit_service", "GET", s,
           admin_required(db, session, s, Path("/admin/services/edit/", service_id),
                          edit_service(db, session, "GET", service_id,
                                       None, None, None, None)))

EditServicePost(s, service_id, form) ==
    Handle("edit_service", "POST", s,
           admin_required(db, session, s, Path("/admin/services/edit/", service_id),
                          edit_service(db, session, "POST", service_id, form.name,
                                       form.description, form.price_display,
                                       form.image_file)))

DeleteServicePost(s, service_id) ==
    Handle("delete_service", "POST", s,
           admin_required(db, session, s, Path("/admin/services/delete/", service_id),
                          delete_service(db, session, service_id)))

\* the public site: pages, contact form and checkout
PublicNext ==
    \/ \E name \in DOMAIN PublicTemplates : PublicGet(name)
    \/ ContactGet
    \/ \E name \in FormValues, email \in FormValues, message \in FormValues :
          ContactPost(name, email, message)
    \/ \E data \in OrderPayloads : OrderPost(data)

\* the admin portal: login, logout and the guarded views
AdminNext ==
    \/ \E s \in Sessions : LoginGet(s)
    \/ \E s \in Sessions, username \in Usernames, password \in Passwords :
          LoginPost(s, username, password)
    \/ \E s \in Sessions : Logout(s)
    \/ \E s \in Sessions : Dashboard(s)
    \/ \E s \in Sessions : AddServiceGet(s)
    \/ \E s \in Sessions, form \in ServiceForms : AddServicePost(s, form)
    \/ \E s \in Sessions, service_id \in ServiceIds : EditServiceGet(s, service_id)
    \/ \E s \in Sessions, service_id \in ServiceIds, form \in ServiceForms :
          EditServicePost(s, service_id, form)
    \/ \E s \in Sessions, service_id \in ServiceIds : DeleteServicePost(s, service_id)

Next ==
    \/ Startup
    \/ Shutdown
    \/ PublicNext
    \/ AdminNext

\* the whole application
Spec == Init /\ [][Next]_vars

\* The public views write only db.orders and db.contacts and never read the
\* session; the admin views write only db.services and the session.  Each
\* half is checked with the other half's tables as a persisted file left them.
SpecPublic == Init /\ [][Startup \/ Shutdown \/ PublicNext]_vars

SpecAdmin == Init /\ [][Startup \/ Shutdown \/ AdminNext]_vars

---------------------------------------------------------------------------
(* Claims *)

GuardedEndpoints == {"dashboard", "add_service", "edit_service", "delete_service"}

ToLogin(r) == r.status = 302 /\ r.kind = "redirect" /\ r.target = "/admin/login"
ToDashboard(r) == r.status = 302 /\ r.kind = "redirect" /\ r.target = "/admin/dashboard"
JsonSuccess(r) == r.status = 200 /\ r.kind = "json" /\ r.target = "success"
JsonError400(r) == r.status = 400 /\ r.kind = "json" /\ r.target = "error"

C3_ContactSubmission ==
    [][(endpoint' = "contact_page" /\ method' = "POST") =>
        \A name \in FormValues, email \in FormValues, message \in FormValues :
            ContactPost(name, email, message) =>
                IF name \notin {None, ""} /\ email \notin {None, ""}
                   /\ message \notin {None, ""}
                THEN /\ \E c \in db'.contacts :
                           /\ c \notin db.contacts
                           /\ db'.contacts = db.contacts \cup {c}
                           /\ c.name = name /\ c.email = email /\ c.message = message
                           /\ \A d \in db.contacts : d.id # c.id
                     /\ Cardinality(db'.contacts) = Cardinality(db.contacts) + 1
                     /\ JsonSuccess(resp')
                ELSE /\ db' = db
                     /\ JsonError400(resp')
      ]_vars

\* a contact submission has just been stored
C3_Witness ==
    /\ endpoint = "contact_page"
    /\ method = "POST"
    /\ JsonSuccess(resp)
    /\ \E c \in db.contacts : c.name = "x" /\ c.email = "x" /\ c.message = "x"

\* C4, as claimed: POST /order with non-empty items and name and email
\* present adds exactly one Order (items as submitted, total a number) and
\* answers success whatever total is; with items, name or email missing or
\* empty it leaves the Order table unchanged and answers 400.
C4_OrderWhateverTotal ==
    [][endpoint' = "order" =>
        \A data \in OrderPayloads :
            OrderPost(data) =>
                IF data.items.t = "list" /\ data.items.s # <<>>
                   /\ data.name \notin {None, ""} /\ data.email \notin {None, ""}
                THEN /\ \E o \in db'.orders :
                           /\ o \notin db.orders
                           /\ db'.orders = db.orders \cup {o}
                           /\ o.items_json = json_dumps(data.items)
                           /\ o.total \in Int
                     /\ JsonSuccess(resp')
                ELSE /\ db'.orders = db.orders
                     /\ JsonError400(resp')
      ]_vars

\* C5: seeding is idempotent from any store: a second seed_data right after
\* the first changes nothing; the admin is inserted only into an empty User
\* table and the seven catalog rows only into an empty Service table, so there
\* is never a second admin nor a duplicated catalog row; orders and contacts
\* are not touched.
C5_SeedIdempotent ==
    [][(phase = "down" /\ phase' = "up") =>
        /\ \A salt \in Salts : seed_data(db', salt) = db'
        /\ db.users # {} => db'.users = db.users
        /\ db.users = {} =>
              /\ Cardinality(db'.users) = 1
              /\ \A u \in db'.users : u.username = DEFAULT_ADMIN_USERNAME
        /\ db.services # {} => db'.services = db.services
        /\ db.services = {} =>
              /\ Cardinality(db'.services) = 7
              /\ \A i \in 1..7 :
                    Cardinality({r \in db'.services :
                                    r.name = services_seed[i].name}) = 1
        /\ Cardinality({u \in db'.users : u.username = DEFAULT_ADMIN_USERNAME}) = 1
        /\ db'.orders = db.orders
        /\ db'.contacts = db.contacts
      ]_vars

\* the process has just started on a used store whose catalog was empty: the
\* catalog is back, the admin and the order are the ones it held
C5_Witness ==
    /\ phase = "up"
    /\ endpoint = None
    /\ Cardinality(db.services) = 7
    /\ Cardinality(db.users) = 1
    /\ db.orders # {}

C7_MissingIdIsNotFound ==
    [][(endpoint' \in {"edit_service", "delete_service"} /\ session[sid']) =>
        \A id \in ServiceIds :
            /\ (/\ get_row(db.services, id) = {}
                /\ \/ DeleteServicePost(sid', id)
                   \/ EditServiceGet(sid', id)
                   \/ \E form \in ServiceForms : EditServicePost(sid', id, form))
               => (resp' = NotFound /\ db' = db)
            /\ (get_row(db.services, id) # {} /\ DeleteServicePost(sid', id))
               => /\ db'.services = {r \in db.services : r.id # id}
                  /\ Cardinality(db'.services) = Cardinality(db.services) - 1
                  /\ db'.orders = db.orders
                  /\ db'.contacts = db.contacts
                  /\ db'.users = db.users
                  /\ ToDashboard(resp')
      ]_vars

\* service 1 was deleted, and a further delete of it has just been answered 404
C7_Witness ==
    /\ endpoint = "delete_service"
    /\ resp = NotFound
    /\ session[sid]
    /\ Cardinality(db.services) = 6

\* C8, as claimed: every stored Service has a non-empty name, description
\* and price_display.
C8_ServiceFieldsNonEmpty ==
    \A r \in db.services :
        /\ r.name \notin {None, ""}
        /\ r.description \notin {None, ""}
        /\ r.price_display \notin {None, ""}

\* C9: a guarded admin route is served, not redirected to login, exactly when
\* the browser's last login/logout event is a successful login; the flag of
\* every browser says just that, so a failed login clears nothing and a logout
\* holds until the next successful login.
C9_ServedIffLoggedIn ==
    /\ \A s \in Sessions : session[s] = loggedIn[s]
    /\ endpoint \in GuardedEndpoints =>
          /\ ToLogin(resp) <=> ~loggedIn[sid]
          /\ executed <=> loggedIn[sid]

\* the dashboard has just been served to a logged-in browser while the other
\* browser is logged out
C9_Witness ==
    /\ endpoint = "dashboard"
    /\ resp = render_template("dashboard.html", None)
    /\ loggedIn[sid]
    /\ \E t \in Sessions : ~loggedIn[t]

\* C10, as claimed: every stored Order has a non-negative total, a non-empty
\* items value and a non-empty name and email.
C10_OrderFieldsValid ==
    \A o \in db.orders :
        /\ o.total >= 0
        /\ o.items_json # <<>>
        /\ o.name \notin {None, ""}
        /\ o.email \notin {None, ""}

====
